---- MODULE Spec2Model ----
(***************************************************************************)
(* gitea-ldap-team-sync.py: one run of the tool as a state machine.        *)
(*                                                                         *)
(* A string is a sequence of one-character strings, so that str.lower and  *)
(* str.split are computed character by character.  None is the empty       *)
(* sequence and a present value v is <<v>>.                                *)
(***************************************************************************)
EXTENDS Integers, Sequences, FiniteSets, TLC

VARIABLES
    mapping,       \* config MAPPING: sequence of [group, teams], in file order
    ldap,          \* what the directory answers to search_s: sequence of [cns, members]
    giteaTeams,    \* target system: org username -> sequence of [name, id]
    giteaMembers,  \* target system: team id -> set of user names
    members0,      \* giteaMembers when the first run started
    users,         \* the list `users` of __main__: sequence of [name, groups, orgs]
    team_id_map,   \* TeamIDMap._map: lower-cased "org/team" -> id
    pc,            \* position of __main__
    fetchOrgs,     \* gitea_fetch_users: organizations still to visit
    fetchTeams,    \* gitea_fetch_users: teams of the current organization still to visit
    curOrg,        \* gitea_fetch_users: org_name of the current organization
    ui,            \* index of `user` in `users`
    todo1,         \* step 1: (org, team) pairs of `user` not visited yet
    ri,            \* step 2: index of the current rule of MAPPING
    ti,            \* step 2: index of the current team of the rule, 0 before the group test
    calls,         \* API calls issued by this run, in order
    out,           \* lines printed by this run, in order
    run,           \* number of the current run of the tool
    apiOk          \* no API call has failed since the first run started

vars == <<mapping, ldap, giteaTeams, giteaMembers, members0, users, team_id_map, pc,
          fetchOrgs, fetchTeams, curOrg, ui, todo1, ri, ti, calls, out, run, apiOk>>

env == <<mapping, ldap, giteaTeams, members0>>

-----------------------------------------------------------------------------
(* Bounds *)

\* longest team list of a rule
MaxTeams == 2
\* runs of the tool in a row
MaxRuns == 2

-----------------------------------------------------------------------------
(* Strings *)

None == <<>>
Some(v) == <<v>>

LowerChar(c) ==
    CASE c = "A" -> "a"
      [] c = "D" -> "d"
      [] c = "G" -> "g"
      [] c = "H" -> "h"
      [] c = "O" -> "o"
      [] OTHER -> c

lower(s) == [i \in 1..Len(s) |-> LowerChar(s[i])]

RECURSIVE SplitAcc(_, _, _)
SplitAcc(s, cur, acc) ==
    IF s = <<>> THEN Append(acc, cur)
    ELSE IF Head(s) = "/" THEN SplitAcc(Tail(s), <<>>, Append(acc, cur))
    ELSE SplitAcc(Tail(s), Append(cur, Head(s)), acc)

\* team.split("/")
split(s) == SplitAcc(s, <<>>, <<>>)

\* f"{org_name}/{team_name}"
Key(org_name, team_name) == org_name \o <<"/">> \o team_name

Min(S) == CHOOSE x \in S : \A y \in S : x <= y

\* dict[k] = v
Put(d, k, v) == [x \in DOMAIN d \cup {k} |-> IF x = k THEN v ELSE d[x]]

-----------------------------------------------------------------------------
(* The inputs of a run *)

Users == {"alice", "bob"}
\* the order in which either system lists users
UserSeq == <<"alice", "bob">>

RECURSIVE Listed(_, _)
Listed(us, S) ==
    IF us = <<>> THEN <<>>
    ELSE IF Head(us) \in S THEN <<Head(us)>> \o Listed(Tail(us), S)
    ELSE Listed(Tail(us), S)

\* the directory holds the groups "g", of any users, and "H", of alice or nobody
LdapResults ==
    { << [cns |-> << <<"g">> >>, members |-> Listed(UserSeq, mg)],
         [cns |-> << <<"H">> >>, members |-> Listed(UserSeq, mh)] >> :
      mg \in SUBSET Users, mh \in SUBSET {"alice"} }

\* MAPPING values: "a/d", "A/O" and the malformed "a"
ValueStrs == { <<"a", "/", "d">>, <<"A", "/", "O">>, <<"a">> }
TeamLists(n) == UNION { [1..k -> ValueStrs] : k \in 1..n }

\* one rule keyed "g" or "G", then possibly one keyed "h"
Mappings ==
    { << [group |-> k, teams |-> ts] >> :
        k \in { <<"g">>, <<"G">> }, ts \in TeamLists(MaxTeams) }
    \cup
    { << [group |-> k, teams |-> ts], [group |-> <<"h">>, teams |-> hs] >> :
        k \in { <<"g">>, <<"G">> }, ts \in TeamLists(MaxTeams), hs \in TeamLists(1) }

\* the target system holds organization "A" with team "O" and, possibly, team "d"
OrgA == <<"A">>
TeamD == [name |-> <<"d">>, id |-> 1]
TeamO == [name |-> <<"O">>, id |-> 2]

GiteaStates ==
    { [teams |-> (OrgA :> <<TeamD, TeamO>>), members |-> (1 :> md @@ 2 :> mo)] :
        md \in SUBSET Users, mo \in SUBSET {"alice"} }
    \cup
    { [teams |-> (OrgA :> <<TeamO>>), members |-> (2 :> mo)] :
        mo \in SUBSET {"alice"} }

-----------------------------------------------------------------------------
(* The target system, as GiteaAPI sees it *)

\* GET /admin/orgs
get_orgs == Listed(<<OrgA>>, DOMAIN giteaTeams)

\* the target system finds an organization whatever the case of its name
OrgsNamed(org_name) == { o \in DOMAIN giteaTeams : lower(o) = lower(org_name) }

\* GET /orgs/{org_name}/teams: None stands for a status other than 200
get_teams(org_name) ==
    IF OrgsNamed(org_name) = {} THEN None
    ELSE Some(giteaTeams[CHOOSE o \in OrgsNamed(org_name) : TRUE])

\* GET /teams/{team_id}/members
get_members(team_id) == Listed(UserSeq, giteaMembers[team_id])

\* one API call: the operation, its arguments, how it ended and where it was made
Call(op, org, team, user, res, at) ==
    [op |-> op, org |-> org, team |-> team, user |-> user, res |-> res, at |-> at]

-----------------------------------------------------------------------------
(* User, GiteaOrganization *)

User(name) == [name |-> name, groups |-> {}, orgs |-> << >>]

add_ldap_group(u, group) == [u EXCEPT !.groups = @ \cup {lower(group)}]

\* get_org(org_name).add_team(team_name)
add_team(u, org_name, team_name) ==
    LET o == lower(org_name)
        old == IF o \in DOMAIN u.orgs THEN u.orgs[o] ELSE {}
    IN [u EXCEPT !.orgs = Put(u.orgs, o, old \cup {lower(team_name)})]

is_member_of(u, org_name, team_name) ==
    LET o == lower(org_name)
    IN IF o \notin DOMAIN u.orgs THEN FALSE
       ELSE lower(team_name) \in u.orgs[o]

\* get_user: the list afterwards, and where the user is in it
HasUser(us, name) == \E i \in 1..Len(us) : us[i].name = name
get_user(us, name) == IF HasUser(us, name) THEN us ELSE Append(us, User(name))
UserIndex(us, name) == CHOOSE i \in 1..Len(us) : us[i].name = name

-----------------------------------------------------------------------------
(* Config.get_group_for, TeamIDMap *)

\* indices of the rules whose team list holds the key, compared in lower case
RulesFor(m, key) ==
    { i \in 1..Len(m) : \E j \in 1..Len(m[i].teams) : lower(m[i].teams[j]) = key }

\* get_group_for without its `return None`: the first group of MAPPING when no rule
\* holds the key
get_group_for_any(m, org_name, team_name) ==
    LET key == lower(Key(org_name, team_name))
    IN IF RulesFor(m, key) = {} THEN Some(m[1].group)
       ELSE Some(m[Min(RulesFor(m, key))].group)

\* get_group_for with `key in teams`: the team lists are not lower-cased
get_group_for_cased(m, org_name, team_name) ==
    LET key == lower(Key(org_name, team_name))
        hits == { i \in 1..Len(m) : \E j \in 1..Len(m[i].teams) : m[i].teams[j] = key }
    IN IF hits = {} THEN None ELSE Some(m[Min(hits)].group)

\* the first group, in the order of MAPPING, with a rule for the team
get_group_for(m, org_name, team_name) ==
    LET key == lower(Key(org_name, team_name))
    IN IF RulesFor(m, key) = {} THEN None
       ELSE Some(m[Min(RulesFor(m, key))].group)

\* TeamIDMap.add keeping the letter case of the key
add_cased(map, org_name, team_name, team_id) ==
    Put(map, Key(org_name, team_name), team_id)

\* TeamIDMap.add
add(map, org_name, team_name, team_id) ==
    Put(map, lower(Key(org_name, team_name)), team_id)

\* the loop of get_id left after its first team
AddTeamsFirst(map, org_name, teams) ==
    IF teams = <<>> THEN map
    ELSE add(map, org_name, lower(Head(teams).name), Head(teams).id)

RECURSIVE AddTeams(_, _, _)
AddTeams(map, org_name, teams) ==
    IF teams = <<>> THEN map
    ELSE AddTeams(add(map, org_name, lower(Head(teams).name), Head(teams).id),
                  org_name, Tail(teams))

\* get_id emptying the map before it lists the teams anew
get_id_dropping(map, org_name, team_name, listOk) ==
    LET org == lower(org_name)
        key == Key(org, lower(team_name))
        listed == get_teams(org)
    IN IF key \in DOMAIN map
       THEN [id |-> Some(map[key]), map |-> map, calls |-> <<>>, ok |-> TRUE]
       ELSE IF ~listOk \/ listed = None
       THEN [id |-> None, map |-> << >>,
             calls |-> << Call("list_teams", org, None, "", "fail", "get_id") >>, ok |-> FALSE]
       ELSE LET map2 == AddTeams(<< >>, org, listed[1])
            IN [id |-> IF key \in DOMAIN map2 THEN Some(map2[key]) ELSE None,
                map |-> map2,
                calls |-> << Call("list_teams", org, None, "", "ok", "get_id") >>, ok |-> TRUE]

\* TeamIDMap.get_id: the id (or None), the map afterwards and the API calls made;
\* listOk is whether GET /orgs/{org}/teams, if it is needed, answers 200
get_id(map, org_name, team_name, listOk) ==
    LET org == lower(org_name)
        key == Key(org, lower(team_name))
        listed == get_teams(org)
    IN IF key \in DOMAIN map
       THEN [id |-> Some(map[key]), map |-> map, calls |-> <<>>, ok |-> TRUE]
       ELSE IF ~listOk \/ listed = None
       THEN [id |-> None, map |-> map,
             calls |-> << Call("list_teams", org, None, "", "fail", "get_id") >>, ok |-> FALSE]
       ELSE LET map2 == AddTeams(map, org, listed[1])
            IN [id |-> IF key \in DOMAIN map2 THEN Some(map2[key]) ELSE None,
                map |-> map2,
                calls |-> << Call("list_teams", org, None, "", "ok", "get_id") >>, ok |-> TRUE]

-----------------------------------------------------------------------------
(* ldap_fetch_users *)

RECURSIVE AddCns(_, _)
AddCns(u, cns) ==
    IF cns = <<>> THEN u ELSE AddCns(add_ldap_group(u, Head(cns)), Tail(cns))

RECURSIVE LdapMembers(_, _, _)
LdapMembers(us, members, cns) ==
    IF members = <<>> THEN us
    ELSE LET us1 == get_user(us, Head(members))
             i == UserIndex(us1, Head(members))
         IN LdapMembers([us1 EXCEPT ![i] = AddCns(@, cns)], Tail(members), cns)

RECURSIVE ldap_fetch_users(_, _)
ldap_fetch_users(us, res) ==
    IF res = <<>> THEN us
    ELSE ldap_fetch_users(LdapMembers(us, Head(res).members, Head(res).cns), Tail(res))

-----------------------------------------------------------------------------
(* gitea_fetch_users: the body of the loop over the members of one team *)

RECURSIVE TeamMembers(_, _, _, _)
TeamMembers(st, org_name, team, members) ==
    IF members = <<>> THEN st
    ELSE LET us1 == get_user(st.users, Head(members))
             i == UserIndex(us1, Head(members))
         IN TeamMembers(
                [users |-> [us1 EXCEPT ![i] = add_team(@, org_name, team.name)],
                 map |-> add(st.map, org_name, team.name, team.id)],
                org_name, team, Tail(members))

-----------------------------------------------------------------------------
(* The loops of __main__: where the next iteration with an effect is *)

\* the (org, team) pairs step 1 visits for a user
Memberships(u) == UNION { { <<o, t>> : t \in u.orgs[o] } : o \in DOMAIN u.orgs }

\* `group not in user.get_groups()`, negated
InGroups(u, group) == group \in u.groups

Pos(p, i, todo, r, t) == [pc |-> p, ui |-> i, todo1 |-> todo, ri |-> r, ti |-> t]

RECURSIVE SeekUser(_, _, _), SeekTeam(_, _, _, _, _)
\* the start of the body of `for user in users`
SeekUser(us, m, i) ==
    IF i > Len(us) THEN Pos("done", i, {}, 0, 0)
    ELSE IF Memberships(us[i]) # {} THEN Pos("step1", i, Memberships(us[i]), 0, 0)
    ELSE SeekTeam(us, m, i, 1, 1)
\* step 2 from team t of rule r on: rules of groups the user is not in are skipped
SeekTeam(us, m, i, r, t) ==
    IF r > Len(m) THEN SeekUser(us, m, i + 1)
    ELSE IF ~InGroups(us[i], m[r].group) THEN SeekTeam(us, m, i, r + 1, 1)
    ELSE IF t > Len(m[r].teams) THEN SeekTeam(us, m, i, r + 1, 1)
    ELSE Pos("step2", i, {}, r, t)

-----------------------------------------------------------------------------
(* Init *)

Init ==
    /\ mapping \in Mappings
    /\ ldap \in LdapResults
    /\ \E g \in GiteaStates :
         /\ giteaTeams = g.teams
         /\ giteaMembers = g.members
         /\ members0 = g.members
    /\ users = <<>>
    /\ team_id_map = << >>
    /\ pc = "ldap"
    /\ fetchOrgs = <<>>
    /\ fetchTeams = <<>>
    /\ curOrg = <<>>
    /\ ui = 0
    /\ todo1 = {}
    /\ ri = 0
    /\ ti = 0
    /\ calls = <<>>
    /\ out = <<>>
    /\ run = 1
    /\ apiOk = TRUE

-----------------------------------------------------------------------------
(* Actions *)

\* sys.exit(..), at "exit_ldap", "exit_gitea" and "exit_invalid_team", and an
\* uncaught exception, at "traceback", end the process with a non-zero status
Fatal(p) == p \in {"exit_ldap", "exit_gitea", "exit_invalid_team", "traceback"}

Stop(how) ==
    /\ pc' = how
    /\ UNCHANGED <<ui, todo1, ri, ti>>

Goto(p) ==
    /\ pc' = p.pc
    /\ ui' = p.ui
    /\ todo1' = p.todo1
    /\ ri' = p.ri
    /\ ti' = p.ti

\* ldap_fetch_users, the search answering
LdapFetch ==
    /\ pc = "ldap"
    /\ users' = ldap_fetch_users(users, ldap)
    /\ pc' = "gitea_orgs"
    /\ UNCHANGED <<env, giteaMembers, team_id_map, fetchOrgs, fetchTeams, curOrg,
                   ui, todo1, ri, ti, calls, out, run, apiOk>>

\* ldap_fetch_users, ldap.LDAPError caught: sys.exit
LdapFail ==
    /\ pc = "ldap"
    /\ Stop("exit_ldap")
    /\ UNCHANGED <<env, giteaMembers, users, team_id_map, fetchOrgs, fetchTeams, curOrg,
                   calls, out, run, apiOk>>

\* gitea_fetch_users left after its first call: reconciliation starts at once
AfterFetchEarly(us, orgsLeft, teamsLeft) == SeekUser(us, mapping, 1)

\* where gitea_fetch_users goes on, or reconciliation starts
AfterFetch(us, orgsLeft, teamsLeft) ==
    IF teamsLeft # <<>> THEN Pos("gitea_members", 0, {}, 0, 0)
    ELSE IF orgsLeft # <<>> THEN Pos("gitea_teams", 0, {}, 0, 0)
    ELSE SeekUser(us, mapping, 1)

\* gitea_fetch_users with the exception swallowed: reconciliation starts on the
\* users fetched so far
FetchFailIgnored(op, org, team) ==
    /\ calls' = Append(calls, Call(op, org, team, "", "fail", "gitea_fetch_users"))
    /\ apiOk' = FALSE
    /\ Goto(SeekUser(users, mapping, 1))
    /\ UNCHANGED <<env, giteaMembers, users, team_id_map, fetchOrgs, fetchTeams, curOrg,
                   out, run>>

\* a GiteaAPIException in gitea_fetch_users: sys.exit
FetchFail(op, org, team) ==
    /\ calls' = Append(calls, Call(op, org, team, "", "fail", "gitea_fetch_users"))
    /\ apiOk' = FALSE
    /\ Stop("exit_gitea")
    /\ UNCHANGED <<env, giteaMembers, users, team_id_map, fetchOrgs, fetchTeams, curOrg,
                   out, run>>

\* gitea_fetch_users: api.get_orgs()
GiteaOrgs ==
    /\ pc = "gitea_orgs"
    /\ \/ /\ calls' = Append(calls, Call("list_orgs", None, None, "", "ok", "gitea_fetch_users"))
          /\ fetchOrgs' = get_orgs
          /\ Goto(AfterFetch(users, get_orgs, <<>>))
          /\ UNCHANGED <<env, giteaMembers, users, team_id_map, fetchTeams, curOrg,
                         out, run, apiOk>>
       \/ FetchFail("list_orgs", None, None)

\* gitea_fetch_users: api.get_teams(org_name) for the next organization
GiteaTeams ==
    /\ pc = "gitea_teams"
    /\ LET org_name == Head(fetchOrgs)
       IN \/ /\ get_teams(org_name) # None
             /\ calls' = Append(calls, Call("list_teams", org_name, None, "", "ok", "gitea_fetch_users"))
             /\ curOrg' = org_name
             /\ fetchOrgs' = Tail(fetchOrgs)
             /\ fetchTeams' = get_teams(org_name)[1]
             /\ Goto(AfterFetch(users, Tail(fetchOrgs), get_teams(org_name)[1]))
             /\ UNCHANGED <<env, giteaMembers, users, team_id_map, out, run, apiOk>>
          \/ FetchFail("list_teams", org_name, None)

\* gitea_fetch_users: api.get_members(team_id) for the next team, and the loop over
\* the members
GiteaMembers ==
    /\ pc = "gitea_members"
    /\ LET team == Head(fetchTeams)
           st == TeamMembers([users |-> users, map |-> team_id_map], curOrg, team,
                             get_members(team.id))
       IN \/ /\ calls' = Append(calls, Call("list_members", None, Some(team.id), "", "ok",
                                          "gitea_fetch_users"))
             /\ users' = st.users
             /\ team_id_map' = st.map
             /\ fetchTeams' = Tail(fetchTeams)
             /\ Goto(AfterFetch(st.users, fetchOrgs, Tail(fetchTeams)))
             /\ UNCHANGED <<env, giteaMembers, fetchOrgs, curOrg, out, run, apiOk>>
          \/ FetchFail("list_members", None, Some(team.id))

-----------------------------------------------------------------------------
(* GiteaAPI.__delete, GiteaAPI.__put *)

\* what requests.delete / requests.put can do: answer with a success status,
\* answer with another status, or raise
WriteOutcomes == {"ok", "status", "ConnectionError", "HTTPError"}

\* whether __delete / __put raises.  An answer of any status is returned without
\* a look at it.  `except HTTPError` does not catch a ConnectionError; and when
\* the request raised HTTPError, the handler reads `r`, which was never bound, and
\* raises UnboundLocalError before it prints.
Raises(outcome) == outcome \notin {"ok", "status"}

\* the lines __delete / __put prints
Warnings(outcome) == <<>>

\* the target system after the request
Applied(op, team_id, user_name, outcome) ==
    IF outcome = "ok" /\ team_id # None /\ team_id[1] \in DOMAIN giteaMembers
    THEN [giteaMembers EXCEPT ![team_id[1]] =
              IF op = "add_member" THEN @ \cup {user_name} ELSE @ \ {user_name}]
    ELSE giteaMembers

Info(action, user_name, org_name, team_name) ==
    [kind |-> "INFO", action |-> action, user |-> user_name,
     org |-> org_name, team |-> team_name]

-----------------------------------------------------------------------------
(* __main__: step 1 *)

After1(todo) ==
    IF todo # {} THEN Pos("step1", ui, todo, 0, 0)
    ELSE SeekTeam(users, mapping, ui, 1, 1)

\* no rule for the team, or the user is in the group found: `continue`
Step1Keep ==
    /\ pc = "step1"
    /\ \E m \in todo1 :
         LET group == get_group_for(mapping, m[1], m[2])
         IN /\ IF group = None THEN TRUE ELSE InGroups(users[ui], group[1])
            /\ Goto(After1(todo1 \ {m}))
    /\ UNCHANGED <<env, giteaMembers, users, team_id_map, fetchOrgs, fetchTeams, curOrg,
                   calls, out, run, apiOk>>

\* step 1 taking the membership it removes out of the model of the user
Step1RemoveForgetting ==
    /\ pc = "step1"
    /\ \E m \in todo1, listOk \in BOOLEAN, outcome \in WriteOutcomes :
         LET group == get_group_for(mapping, m[1], m[2])
             u == users[ui]
             got == get_id(team_id_map, m[1], m[2], listOk)
         IN /\ IF group = None THEN FALSE ELSE ~InGroups(u, group[1])
            /\ team_id_map' = got.map
            /\ users' = [users EXCEPT ![ui].orgs[m[1]] = @ \ {m[2]}]
            /\ calls' = calls \o got.calls
                          \o << Call("remove_member", None, got.id, u.name, outcome, "step1") >>
            /\ giteaMembers' = Applied("remove_member", got.id, u.name, outcome)
            /\ apiOk' = (apiOk /\ got.ok /\ outcome = "ok")
            /\ IF Raises(outcome)
               THEN /\ Stop("traceback")
                    /\ out' = out \o Warnings(outcome)
               ELSE /\ Goto(After1(todo1 \ {m}))
                    /\ out' = out \o Warnings(outcome)
                                  \o << Info("removed", u.name, m[1], m[2]) >>
    /\ UNCHANGED <<env, fetchOrgs, fetchTeams, curOrg, run>>

\* the user is not in the group found: api.remove_member(team_id_map.get_id(..), ..)
Step1Remove ==
    /\ pc = "step1"
    /\ \E m \in todo1, listOk \in BOOLEAN, outcome \in WriteOutcomes :
         LET group == get_group_for(mapping, m[1], m[2])
             u == users[ui]
             got == get_id(team_id_map, m[1], m[2], listOk)
         IN /\ IF group = None THEN FALSE ELSE ~InGroups(u, group[1])
            /\ team_id_map' = got.map
            /\ calls' = calls \o got.calls
                          \o << Call("remove_member", None, got.id, u.name, outcome, "step1") >>
            /\ giteaMembers' = Applied("remove_member", got.id, u.name, outcome)
            /\ apiOk' = (apiOk /\ got.ok /\ outcome = "ok")
            /\ IF Raises(outcome)
               THEN /\ Stop("traceback")
                    /\ out' = out \o Warnings(outcome)
               ELSE /\ Goto(After1(todo1 \ {m}))
                    /\ out' = out \o Warnings(outcome)
                                  \o << Info("removed", u.name, m[1], m[2]) >>
    /\ UNCHANGED <<env, users, fetchOrgs, fetchTeams, curOrg, run>>

-----------------------------------------------------------------------------
(* __main__: step 2, at team ti of rule ri, a rule of a group the user is in *)

Entry == mapping[ri].teams[ti]

\* len(split) != 2: sys.exit
Step2Invalid ==
    /\ pc = "step2"
    /\ Len(split(Entry)) # 2
    /\ Stop("exit_invalid_team")
    /\ UNCHANGED <<env, giteaMembers, users, team_id_map, fetchOrgs, fetchTeams, curOrg,
                   calls, out, run, apiOk>>

\* user.is_member_of(org_name, team_name): `continue`
Step2Member ==
    /\ pc = "step2"
    /\ Len(split(Entry)) = 2
    /\ is_member_of(users[ui], lower(split(Entry)[1]), lower(split(Entry)[2]))
    /\ Goto(SeekTeam(users, mapping, ui, ri, ti + 1))
    /\ UNCHANGED <<env, giteaMembers, users, team_id_map, fetchOrgs, fetchTeams, curOrg,
                   calls, out, run, apiOk>>

\* team_id == None treated like an invalid team: sys.exit
Step2UnknownFatal ==
    /\ pc = "step2"
    /\ Len(split(Entry)) = 2
    /\ \E listOk \in BOOLEAN :
         LET org_name == lower(split(Entry)[1])
             team_name == lower(split(Entry)[2])
             got == get_id(team_id_map, org_name, team_name, listOk)
         IN /\ ~is_member_of(users[ui], org_name, team_name)
            /\ got.id = None
            /\ team_id_map' = got.map
            /\ calls' = calls \o got.calls
            /\ apiOk' = (apiOk /\ got.ok)
            /\ Stop("exit_invalid_team")
    /\ UNCHANGED <<env, giteaMembers, users, fetchOrgs, fetchTeams, curOrg, out, run>>

\* team_id == None: `continue`
Step2Unknown ==
    /\ pc = "step2"
    /\ Len(split(Entry)) = 2
    /\ \E listOk \in BOOLEAN :
         LET org_name == lower(split(Entry)[1])
             team_name == lower(split(Entry)[2])
             got == get_id(team_id_map, org_name, team_name, listOk)
         IN /\ ~is_member_of(users[ui], org_name, team_name)
            /\ got.id = None
            /\ team_id_map' = got.map
            /\ calls' = calls \o got.calls
            /\ apiOk' = (apiOk /\ got.ok)
            /\ Goto(SeekTeam(users, mapping, ui, ri, ti + 1))
    /\ UNCHANGED <<env, giteaMembers, users, fetchOrgs, fetchTeams, curOrg, out, run>>

\* step 2 recording the membership it adds in the model of the user
Step2AddRecorded ==
    /\ pc = "step2"
    /\ Len(split(Entry)) = 2
    /\ \E listOk \in BOOLEAN, outcome \in WriteOutcomes :
         LET org_name == lower(split(Entry)[1])
             team_name == lower(split(Entry)[2])
             u == users[ui]
             got == get_id(team_id_map, org_name, team_name, listOk)
         IN /\ ~is_member_of(u, org_name, team_name)
            /\ got.id # None
            /\ team_id_map' = got.map
            /\ users' = [users EXCEPT ![ui] = add_team(@, org_name, team_name)]
            /\ calls' = calls \o got.calls
                          \o << Call("add_member", None, got.id, u.name, outcome, "step2") >>
            /\ giteaMembers' = Applied("add_member", got.id, u.name, outcome)
            /\ apiOk' = (apiOk /\ got.ok /\ outcome = "ok")
            /\ IF Raises(outcome)
               THEN /\ Stop("traceback")
                    /\ out' = out \o Warnings(outcome)
               ELSE /\ Goto(SeekTeam(users, mapping, ui, ri, ti + 1))
                    /\ out' = out \o Warnings(outcome)
                                  \o << Info("added", u.name, org_name, team_name) >>
    /\ UNCHANGED <<env, fetchOrgs, fetchTeams, curOrg, run>>

\* api.add_member(team_id, user.get_name())
Step2Add ==
    /\ pc = "step2"
    /\ Len(split(Entry)) = 2
    /\ \E listOk \in BOOLEAN, outcome \in WriteOutcomes :
         LET org_name == lower(split(Entry)[1])
             team_name == lower(split(Entry)[2])
             u == users[ui]
             got == get_id(team_id_map, org_name, team_name, listOk)
         IN /\ ~is_member_of(u, org_name, team_name)
            /\ got.id # None
            /\ team_id_map' = got.map
            /\ calls' = calls \o got.calls
                          \o << Call("add_member", None, got.id, u.name, outcome, "step2") >>
            /\ giteaMembers' = Applied("add_member", got.id, u.name, outcome)
            /\ apiOk' = (apiOk /\ got.ok /\ outcome = "ok")
            /\ IF Raises(outcome)
               THEN /\ Stop("traceback")
                    /\ out' = out \o Warnings(outcome)
               ELSE /\ Goto(SeekTeam(users, mapping, ui, ri, ti + 1))
                    /\ out' = out \o Warnings(outcome)
                                  \o << Info("added", u.name, org_name, team_name) >>
    /\ UNCHANGED <<env, users, fetchOrgs, fetchTeams, curOrg, run>>

-----------------------------------------------------------------------------
(* The tool is run again: nothing is kept between runs but the two systems *)

Rerun ==
    /\ pc = "done"
    /\ run < MaxRuns
    /\ run' = run + 1
    /\ pc' = "ldap"
    /\ users' = <<>>
    /\ team_id_map' = << >>
    /\ fetchOrgs' = <<>>
    /\ fetchTeams' = <<>>
    /\ curOrg' = <<>>
    /\ ui' = 0
    /\ todo1' = {}
    /\ ri' = 0
    /\ ti' = 0
    /\ calls' = <<>>
    /\ out' = <<>>
    /\ UNCHANGED <<env, giteaMembers, apiOk>>

-----------------------------------------------------------------------------
(* Specifications *)

RunStep ==
    \/ LdapFetch
    \/ LdapFail
    \/ GiteaOrgs
    \/ GiteaTeams
    \/ GiteaMembers
    \/ Step1Keep
    \/ Step1Remove
    \/ Step2Invalid
    \/ Step2Member
    \/ Step2Unknown
    \/ Step2Add

\* one run of the tool
Next == RunStep

Spec == Init /\ [][Next]_vars

\* runs of the tool in a row
NextRerun == RunStep \/ Rerun

SpecRerun == Init /\ [][NextRerun]_vars

-----------------------------------------------------------------------------
(* What the claims speak of *)

WriteOps == {"add_member", "remove_member"}

\* the teams of the target system
GiteaTeamSet ==
    UNION { { [org |-> o, name |-> giteaTeams[o][k].name, id |-> giteaTeams[o][k].id] :
              k \in 1..Len(giteaTeams[o]) } : o \in DOMAIN giteaTeams }

TeamKey(t) == lower(Key(t.org, t.name))

\* rule r lists the org/team, letter case aside
RuleMaps(r, key) == \E j \in 1..Len(mapping[r].teams) : lower(mapping[r].teams[j]) = key

Managed(key) == \E r \in 1..Len(mapping) : RuleMaps(r, key)

\* the directory has the user in the group, letter case aside
InLdap(name, group) ==
    \E e \in 1..Len(ldap) :
        /\ \E k \in 1..Len(ldap[e].members) : ldap[e].members[k] = name
        /\ \E c \in 1..Len(ldap[e].cns) : lower(ldap[e].cns[c]) = lower(group)

\* the user is in a group that a rule maps to the org/team
Entitled(name, key) ==
    \E r \in 1..Len(mapping) : RuleMaps(r, key) /\ InLdap(name, mapping[r].group)

\* calls of this run for one team and one user
Count(op, id, name) ==
    Cardinality({ i \in 1..Len(calls) :
                    calls[i].op = op /\ calls[i].team = Some(id) /\ calls[i].user = name })

Malformed(v) ==
    \/ Len(split(v)) # 2
    \/ \E k \in 1..Len(split(v)) : split(v)[k] = <<>>

HasMalformed ==
    \E r \in 1..Len(mapping) : \E j \in 1..Len(mapping[r].teams) :
        Malformed(mapping[r].teams[j])

\* every rule of MAPPING is keyed in lower case
LowerKeys == \A r \in 1..Len(mapping) : mapping[r].group = lower(mapping[r].group)

AllMappedExist ==
    \A r \in 1..Len(mapping) : \A j \in 1..Len(mapping[r].teams) :
        \E t \in GiteaTeamSet : TeamKey(t) = lower(mapping[r].teams[j])

-----------------------------------------------------------------------------
(* C1 *)

\* C1: a second run, started after a first run that completed with every call
\* succeeding, issues no add_member and no remove_member call.
C1_SecondRunSilent ==
    (run = 2 /\ apiOk) => \A i \in 1..Len(calls) : calls[i].op \notin WriteOps

-----------------------------------------------------------------------------
(* C2 *)

\* C2: after a complete run in which every mapped team exists and every call
\* succeeded, a user is a member of a team some rule names exactly if the
\* directory has the user in a group that a rule maps to the team, and the
\* members of the teams no rule names are those of before the run.  Stated for
\* rules keyed in lower case, where letter case (C6) plays no part.
C2_Convergence ==
    (pc = "done" /\ run = 1 /\ apiOk /\ AllMappedExist /\ LowerKeys) =>
        \A t \in GiteaTeamSet : \A u \in Users :
            IF Managed(TeamKey(t))
            THEN (u \in giteaMembers[t.id]) <=> Entitled(u, TeamKey(t))
            ELSE (u \in giteaMembers[t.id]) <=> (u \in members0[t.id])

-----------------------------------------------------------------------------
(* C3 *)

\* C3: no remove_member call is issued for a team that no rule names.
C3_UnmanagedNeverRemoved ==
    \A i \in 1..Len(calls) :
        calls[i].op = "remove_member" =>
            \A t \in GiteaTeamSet : ~Managed(TeamKey(t)) => calls[i].team # Some(t.id)

\* alice was a member of a team no rule names and is in no directory group, the
\* run visited all her memberships and removed her from another team
C3_Witness ==
    /\ pc = "done"
    /\ \E t \in GiteaTeamSet : ~Managed(TeamKey(t)) /\ "alice" \in members0[t.id]
    /\ \A r \in 1..Len(mapping) : ~InLdap("alice", mapping[r].group)
    /\ \E i \in 1..Len(calls) : calls[i].op = "remove_member" /\ calls[i].user = "alice"

-----------------------------------------------------------------------------
(* C4 *)

\* C4: a run issues exactly one add_member call for a user and an existing team
\* when the directory has the user in a group that a rule maps to the team and
\* the user was not a member of it.  Stated for rules keyed in lower case, where
\* letter case (C6) plays no part.
C4_ExactlyOneAdd ==
    (pc = "done" /\ run = 1 /\ apiOk /\ LowerKeys) =>
        \A t \in GiteaTeamSet : \A u \in Users :
            (Entitled(u, TeamKey(t)) /\ u \notin members0[t.id]) =>
                Count("add_member", t.id, u) = 1

-----------------------------------------------------------------------------
(* C5 *)

\* C5 as stated: a run issues exactly one remove_member call for a member of a
\* team whenever some rule maps a group the user is not in to the team.
C5_RemovedIfOutsideSomeGroup ==
    (pc = "done" /\ run = 1 /\ apiOk) =>
        \A t \in GiteaTeamSet : \A u \in Users : \A r \in 1..Len(mapping) :
            (u \in members0[t.id] /\ RuleMaps(r, TeamKey(t))
                /\ ~InLdap(u, mapping[r].group)) =>
                Count("remove_member", t.id, u) = 1

\* C5 as amended: a run that completes issues exactly one remove_member call for
\* a member of a team that some rule names when the user is in none of the groups
\* that the rules map to the team.
C5_RemovedIfOutsideEveryGroup ==
    (pc = "done" /\ run = 1) =>
        \A t \in GiteaTeamSet : \A u \in Users :
            (u \in members0[t.id] /\ Managed(TeamKey(t)) /\ ~Entitled(u, TeamKey(t))) =>
                Count("remove_member", t.id, u) = 1

\* a completed run over a member of a team named by the rules of two groups, the
\* user in neither
C5_Witness ==
    /\ pc = "done"
    /\ run = 1
    /\ \E t \in GiteaTeamSet :
         /\ "alice" \in members0[t.id]
         /\ Cardinality({ r \in 1..Len(mapping) : RuleMaps(r, TeamKey(t)) }) = 2
         /\ ~Entitled("alice", TeamKey(t))
         /\ Count("remove_member", t.id, "alice") = 1

-----------------------------------------------------------------------------
(* C6 *)

\* the id the target system has for an org/team, None when it has no such team
IdOf(key) ==
    IF \E t \in GiteaTeamSet : TeamKey(t) = key
    THEN Some((CHOOSE t \in GiteaTeamSet : TeamKey(t) = key).id)
    ELSE None

\* the remove_member calls of step 1 for the users us under the mapping m
Step1Calls(m, us) ==
    UNION { { <<"remove_member", IdOf(Key(p[1], p[2])), us[i].name>> :
              p \in { q \in Memberships(us[i]) :
                        IF get_group_for(m, q[1], q[2]) = None THEN FALSE
                        ELSE ~InGroups(us[i], get_group_for(m, q[1], q[2])[1]) } } :
            i \in 1..Len(us) }

\* the add_member calls of step 2 for the users us under the well-formed mapping m
Step2Calls(m, us) ==
    UNION { UNION { { <<"add_member", IdOf(lower(m[r].teams[j])), us[i].name>> :
                      j \in { k \in 1..Len(m[r].teams) :
                                /\ InGroups(us[i], m[r].group)
                                /\ ~is_member_of(us[i], split(m[r].teams[k])[1],
                                                 split(m[r].teams[k])[2])
                                /\ IdOf(lower(m[r].teams[k])) # None } } :
                    r \in 1..Len(m) } :
            i \in 1..Len(us) }

\* the add_member and remove_member calls of this run
WriteSet ==
    { <<calls[i].op, calls[i].team, calls[i].user>> :
        i \in { k \in 1..Len(calls) : calls[k].op \in WriteOps } }

\* MAPPING respelled: every group and every org/team string in lower case
LowerMapping(m) ==
    [r \in 1..Len(m) |->
        [group |-> lower(m[r].group),
         teams |-> [j \in 1..Len(m[r].teams) |-> lower(m[r].teams[j])]]]

\* C6: a complete run issues the add_member and remove_member calls that it
\* would issue with every group and org/team string of MAPPING respelled in
\* lower case.
C6_CaseInsensitive ==
    (pc = "done" /\ run = 1 /\ apiOk /\ ~HasMalformed) =>
        WriteSet = Step1Calls(LowerMapping(mapping), users)
                       \cup Step2Calls(LowerMapping(mapping), users)

-----------------------------------------------------------------------------
(* C7, C8 *)

\* C7: with a malformed value anywhere in MAPPING a run that has users to
\* reconcile does not complete: it ends in a fatal state whoever the users are.
C7_MalformedIsFatal == (HasMalformed /\ users # <<>>) => pc # "done"

\* C8: a run that ends with the invalid-team error has issued no API call.
C8_NoCallBeforeAbort == pc = "exit_invalid_team" => calls = <<>>

-----------------------------------------------------------------------------
(* C9 *)

\* C9: when list_orgs, list_teams or list_members fails while the snapshot is
\* built, the run ends with the fetch error, the failed call is its last call
\* and it has issued no add_member or remove_member call.
C9_ReadFailureAborts ==
    \A i \in 1..Len(calls) :
        (calls[i].at = "gitea_fetch_users" /\ calls[i].res = "fail") =>
            /\ pc = "exit_gitea"
            /\ i = Len(calls)
            /\ \A k \in 1..Len(calls) : calls[k].op \notin WriteOps

\* list_members failed after users had been taken from both systems
C9_Witness ==
    /\ pc = "exit_gitea"
    /\ calls[Len(calls)].op = "list_members"
    /\ calls[Len(calls)].res = "fail"
    /\ \E i \in 1..Len(users) : users[i].groups # {} /\ DOMAIN users[i].orgs # {}

-----------------------------------------------------------------------------
(* C10 *)

\* C10: a failing add_member or remove_member call does not end the run: the
\* run is never ended by an exception of the call.
C10_WriteFailureTolerated ==
    \A i \in 1..Len(calls) :
        (calls[i].op \in WriteOps /\ calls[i].res # "ok") => pc # "traceback"

-----------------------------------------------------------------------------
(* C11 *)

\* the lower-cased org/team of the step 2 entry
EntryKey == Key(lower(split(Entry)[1]), lower(split(Entry)[2]))

\* the calls a step adds to the log
NewCalls == SubSeq(calls', Len(calls) + 1, Len(calls'))

\* C11: a step 2 iteration that cannot resolve the team id (the map has no entry
\* for the team after get_id) issues no add_member call, prints nothing, does
\* not end the run, and the engine goes on with the next rule entry of the user
\* or, after the last, with the next user.
C11_UnknownTeamSkipped ==
    [][ (pc = "step2" /\ Len(split(Entry)) = 2 /\ EntryKey \notin DOMAIN team_id_map')
            => /\ \A i \in 1..Len(NewCalls) : NewCalls[i].op # "add_member"
               /\ out' = out
               /\ ~Fatal(pc')
               /\ Pos(pc', ui', todo1', ri', ti') = SeekTeam(users, mapping, ui, ri, ti + 1) ]_vars

\* a lookup failed for the first user, nothing was added for it, and the run
\* went on to add the second user to the same team and completed
C11_Witness ==
    /\ pc = "done"
    /\ \E i \in 1..Len(calls) : \E k \in 1..Len(calls) :
         /\ i < k
         /\ calls[i].at = "get_id" /\ calls[i].res = "fail"
         /\ calls[k].op = "add_member" /\ calls[k].user = "bob"
    /\ \A i \in 1..Len(calls) : calls[i].op = "add_member" => calls[i].user # "alice"
    /\ \A i \in 1..Len(out) : out[i].user # "alice"
    /\ Len(users) = 2 /\ users[1].name = "alice"

-----------------------------------------------------------------------------
(* C12 *)

\* arguments of get_id: either spelling of the organization, a team with a
\* lower-case name, one with a capital and one the target system does not have
OrgNames == { <<"a">>, <<"A">> }
TeamNames == { <<"d">>, <<"O">>, <<"x">> }

\* the teams the target system lists for the organization
ListedFor(org_name) == { t \in GiteaTeamSet : lower(t.org) = lower(org_name) }

\* C12: wherever __main__ calls get_id, get_id on a cached key returns the cached
\* id and makes no call; on any other key it makes exactly one list_teams call
\* for the organization and, when that succeeds, the map afterwards holds every
\* team listed, under org/lower-cased-name with its id, and the result is the id
\* of the requested team if it was listed and None if not.
C12_GetId ==
    pc \in {"step1", "step2"} =>
    \A org_name \in OrgNames : \A team_name \in TeamNames : \A listOk \in BOOLEAN :
        LET key == lower(Key(org_name, team_name))
            got == get_id(team_id_map, org_name, team_name, listOk)
        IN IF key \in DOMAIN team_id_map
           THEN /\ got.id = Some(team_id_map[key])
                /\ got.calls = <<>>
                /\ got.map = team_id_map
           ELSE /\ Len(got.calls) = 1
                /\ got.calls[1].op = "list_teams"
                /\ got.calls[1].org = lower(org_name)
                /\ listOk =>
                       /\ got.calls[1].res = "ok"
                       /\ \A t \in ListedFor(org_name) :
                              /\ TeamKey(t) \in DOMAIN got.map
                              /\ got.map[TeamKey(t)] = t.id
                       /\ \A k \in DOMAIN team_id_map :
                              k \in DOMAIN got.map /\ got.map[k] = team_id_map[k]
                       /\ got.id = IdOf(key)

\* step 2 looked up a team the fetch had not cached, and the listing put both
\* teams of the organization into the map
C12_Witness ==
    /\ members0 = (1 :> {} @@ 2 :> {})
    /\ \E i \in 1..Len(calls) : calls[i].at = "get_id" /\ calls[i].res = "ok"
    /\ DOMAIN team_id_map = { <<"a", "/", "d">>, <<"a", "/", "o">> }
    /\ \E i \in 1..Len(calls) : calls[i].op = "add_member"

-----------------------------------------------------------------------------
(* C13 *)

\* C13: when the list_teams call of get_id fails, get_id returns None, the map
\* is as it was before the call, and the run is not ended.
C13_LookupFailureSoft ==
    [][ (\E i \in 1..Len(NewCalls) : NewCalls[i].at = "get_id" /\ NewCalls[i].res = "fail")
            => /\ team_id_map' = team_id_map
               /\ ~Fatal(pc')
               /\ \A i \in 1..Len(NewCalls) : NewCalls[i].op \notin WriteOps ]_vars

\* a lookup failed while the map held the team of a member, and the run completed
C13_Witness ==
    /\ pc = "done"
    /\ calls[Len(calls)].at = "get_id"
    /\ calls[Len(calls)].res = "fail"
    /\ DOMAIN team_id_map = { <<"a", "/", "o">> }

-----------------------------------------------------------------------------
(* C14 *)

\* where the add_member and remove_member calls are in the log
WriteAt == { k \in 1..Len(calls) : calls[k].op \in WriteOps }

\* the calls gitea_fetch_users made
FetchAt == { k \in 1..Len(calls) : calls[k].at = "gitea_fetch_users" }

\* gitea_fetch_users listed the organizations, the teams of each and the members
\* of each team, and every call was answered
SnapshotBuilt ==
    /\ \A k \in FetchAt : calls[k].res = "ok"
    /\ Cardinality({ k \in FetchAt : calls[k].op = "list_orgs" }) = 1
    /\ Cardinality({ k \in FetchAt : calls[k].op = "list_teams" })
           = Cardinality(DOMAIN giteaTeams)
    /\ \A t \in GiteaTeamSet :
           \E k \in FetchAt : calls[k].op = "list_members" /\ calls[k].team = Some(t.id)

\* C14: in a run, no remove_member call for a user comes after an add_member
\* call for the same user; the calls for one user are not interleaved with those
\* for another; and every add_member or remove_member call comes after the
\* directory was read and after all the calls of a completely built
\* target-system snapshot.
C14_PhaseOrdering ==
    /\ \A i \in WriteAt : \A k \in WriteAt :
           (i < k /\ calls[i].user = calls[k].user /\ calls[i].op = "add_member")
               => calls[k].op = "add_member"
    /\ \A i \in WriteAt : \A k \in WriteAt :
           (i < k /\ calls[i].user = calls[k].user)
               => \A j \in WriteAt : (i < j /\ j < k) => calls[j].user = calls[i].user
    /\ WriteAt # {} =>
           /\ pc \notin {"ldap", "exit_ldap", "gitea_orgs", "gitea_teams", "gitea_members",
                         "exit_gitea"}
           /\ SnapshotBuilt
           /\ \A i \in WriteAt : \A k \in FetchAt : k < i

\* the first user was removed from one team and then added to another, and
\* after that the second user was added to a team
C14_Witness ==
    /\ pc = "done"
    /\ \E i \in WriteAt : \E j \in WriteAt : \E k \in WriteAt :
         /\ i < j /\ j < k
         /\ calls[i].op = "remove_member" /\ calls[i].user = "alice"
         /\ calls[j].op = "add_member" /\ calls[j].user = "alice"
         /\ calls[k].user = "bob"

-----------------------------------------------------------------------------
(* C15 *)

\* C15: no step of reconciliation changes the identity model: while the run is
\* in step 1 or step 2, the list of users, the LDAP groups of each user, the
\* organizations of each user and the teams of each organization stay as they
\* are, whatever the step calls.
C15_ModelReadOnly ==
    [][ (pc \in {"step1", "step2"}) => (users' = users) ]_vars

\* the run removed the first user from a team and added the second to one, both
\* calls answered with success, and the model still shows the memberships read
C15_Witness ==
    /\ pc = "done"
    /\ \E i \in WriteAt : \E k \in WriteAt :
         /\ calls[i].op = "remove_member" /\ calls[i].user = "alice"
         /\ calls[i].res = "ok" /\ calls[i].team = Some(2)
         /\ calls[k].op = "add_member" /\ calls[k].user = "bob"
         /\ calls[k].res = "ok" /\ calls[k].team = Some(1)
    /\ Len(users) = 2
    /\ is_member_of(users[UserIndex(users, "alice")], <<"a">>, <<"o">>)
    /\ ~is_member_of(users[UserIndex(users, "bob")], <<"a">>, <<"d">>)
    /\ giteaMembers[2] = {} /\ "bob" \in giteaMembers[1]

-----------------------------------------------------------------------------
(* C16 *)

\* C16: the calls issued for a user do not depend on the users processed before
\* it.  A user processed first gets every removal of step 1, so, whatever the
\* order, a run whose API calls were all answered with success and that was
\* not ended by an exception of a call has issued the step 1 removals of every
\* user.
C16_UserOrderIrrelevant ==
    (pc \in {"done", "exit_invalid_team"} /\ apiOk) =>
        Step1Calls(mapping, users) \subseteq WriteSet

-----------------------------------------------------------------------------
(* C17 *)

\* C17: with the groups of MAPPING spelled in lower case, no remove_member call
\* is issued for a user and a team when the directory has the user in a group
\* that some rule maps to the team.
C17_NoRemovalOfEntitled ==
    LowerKeys =>
        \A i \in WriteAt : \A t \in GiteaTeamSet :
            (calls[i].op = "remove_member" /\ calls[i].team = Some(t.id))
                => ~Entitled(calls[i].user, TeamKey(t))

-----------------------------------------------------------------------------
(* C18 *)

\* the run has built both snapshots
Reconciling == pc \in {"step1", "step2", "done", "exit_invalid_team", "traceback"}

\* C18: in a run, every remove_member call is for a user and a team of which the
\* target system had the user a member when the run started, every add_member
\* call is for a team of which it had not, so no user and team get both calls;
\* and from the end of the fetch on the model of every user shows exactly the
\* memberships the target system had at the start, whatever step 1 removed.
C18_RemoveXorAdd ==
    /\ \A i \in WriteAt : \A t \in GiteaTeamSet :
           calls[i].team = Some(t.id) =>
               (calls[i].op = "remove_member" <=> calls[i].user \in members0[t.id])
    /\ \A i \in WriteAt : \A k \in WriteAt :
           (calls[i].user = calls[k].user /\ calls[i].team = calls[k].team)
               => calls[i].op = calls[k].op
    /\ Reconciling =>
           \A i \in 1..Len(users) : \A t \in GiteaTeamSet :
               is_member_of(users[i], t.org, t.name) <=> users[i].name \in members0[t.id]

\* step 1 removed a user from a team although a rule maps a group of the user
\* to the team; step 2 came to that rule and issued no add_member call
C18_Witness ==
    /\ pc = "done"
    /\ \E i \in WriteAt : calls[i].op = "remove_member" /\ calls[i].user = "alice"
                          /\ calls[i].team = Some(2) /\ calls[i].res = "ok"
    /\ Entitled("alice", <<"a", "/", "o">>)
    /\ \E i \in 1..Len(users) : users[i].name = "alice" /\ <<"h">> \in users[i].groups
    /\ \A i \in WriteAt : calls[i].op = "add_member" => calls[i].user # "alice"

-----------------------------------------------------------------------------
(* C19 *)

\* C19: once both snapshots are built, the map has the id of every org/team in
\* the memberships of every user; so get_id, for each membership step 1 has
\* yet to visit, returns an id and makes no list_teams call, whether or not the
\* target system would answer one; and no remove_member call in the log has
\* None for the team id.
C19_Step1HitsCache ==
    /\ Reconciling =>
           \A i \in 1..Len(users) : \A m \in Memberships(users[i]) :
               /\ Key(m[1], m[2]) \in DOMAIN team_id_map
               /\ Some(team_id_map[Key(m[1], m[2])]) = IdOf(Key(m[1], m[2]))
    /\ pc = "step1" =>
           \A m \in todo1 : \A listOk \in BOOLEAN :
               LET got == get_id(team_id_map, m[1], m[2], listOk)
               IN got.calls = <<>> /\ got.id # None /\ got.map = team_id_map
    /\ \A k \in 1..Len(calls) : calls[k].op = "remove_member" => calls[k].team # None

\* step 1 removed one user from the team with a lower-case name and the other
\* from the team with a capital in its name, and get_id made no call in the run
C19_Witness ==
    /\ pc = "done"
    /\ \E i \in WriteAt : calls[i].op = "remove_member" /\ calls[i].user = "bob"
                          /\ calls[i].team = Some(1)
    /\ \E i \in WriteAt : calls[i].op = "remove_member" /\ calls[i].user = "alice"
                          /\ calls[i].team = Some(2)
    /\ \A k \in 1..Len(calls) : calls[k].at # "get_id"
    /\ DOMAIN team_id_map = { <<"a", "/", "d">>, <<"a", "/", "o">> }

====
